---- MODULE Spec2Model ----
(***************************************************************************)
(* Model of the snippet lifecycle manager of orca-snippets-plugin          *)
(* (src/src/snippet-manager.ts, src/src/main.ts).                          *)
(*                                                                         *)
(* State: the manager's two maps (snippets, injectedElements), the         *)
(* manager-created elements attached to the document, the persisted blob   *)
(* held by the host (orca.plugins.getData/setData), the setData calls in   *)
(* flight together with the continuation of the async method suspended on  *)
(* each, and the clock read by Date.now().                                 *)
(*                                                                         *)
(* The host serves setData calls in the order they were issued: the head   *)
(* of writeQueue is the next write to resolve, either successfully (the    *)
(* blob becomes the written string) or with an error (the blob is kept).   *)
(***************************************************************************)
EXTENDS Integers, Sequences, FiniteSets, Bags, TLC

(* ---------------------------------------------------------------- bounds *)
MaxOps  == 2      \* calls of the manager's operations in one run
MaxTime == 3      \* the clock stops advancing here
MaxRand == 2      \* distinct outcomes of Math.random() per clock value
MaxOpens == 3     \* manager containers openManager creates in one run

(* ------------------------------------------------------------- constants *)
ImportStep == 1000    \* baseTime = now + success * 1000

(* ------------------------------------------------------------ value sets *)
\* Strings are sequences of one-character strings, so that trim() is computed.
Types    == { "css", "js" }

NoId      == <<0, 0>>           \* an id no generator call returns
Absent    == [absent |-> TRUE]  \* getData() result when nothing was stored
Undefined == [undefined |-> TRUE]

(* ------------------------------------------------------- pure operations *)
RECURSIVE TrimStart(_)
TrimStart(s) ==
  IF s # <<>> /\ Head(s) = " " THEN TrimStart(Tail(s)) ELSE s

RECURSIVE TrimEnd(_)
TrimEnd(s) ==
  IF s # <<>> /\ s[Len(s)] = " " THEN TrimEnd(SubSeq(s, 1, Len(s) - 1)) ELSE s

\* String.prototype.trim
Trim(s) == TrimEnd(TrimStart(s))

\* `snippet-${now}-${Math.random().toString(36).substr(2, 9)}`
GenId(t, rnd) == <<t, rnd>>

\* JSON.stringify / JSON.parse of the values the program stores
Stringify(v) == [json |-> v]
ParseOk(text) == "json" \in DOMAIN text
Parse(text) == text.json

\* JSON documents: an array of items, or some other value
JArray(items) == [kind |-> "array", items |-> items]
JObject       == [kind |-> "object"]

\* Array.isArray
IsArray(v) == "kind" \in DOMAIN v /\ v.kind = "array"

\* The value of a record's enabled field is written as its JSON literal: a
\* file may carry a string or a number where a boolean is expected.
JTrue  == "true"
JFalse == "false"

\* ToBoolean, as `if (x)` and `!x` apply it
Truthy(v) == v \notin { "false", "null", "0", "\"\"" }

\* !x
Not(v) == IF Truthy(v) THEN JFalse ELSE JTrue

(* ----------------------------------------------- Map<string, Snippet> ops *)
\* The map is the sequence of its values in insertion order (keys are .id).
MapHas(m, id) == \E i \in 1..Len(m) : m[i].id = id

MapGet(m, id) ==
  IF MapHas(m, id) THEN m[CHOOSE i \in 1..Len(m) : m[i].id = id] ELSE Undefined

\* Map.prototype.set: an existing key keeps its position
MapSet(m, r) ==
  IF MapHas(m, r.id)
    THEN [i \in 1..Len(m) |-> IF m[i].id = r.id THEN r ELSE m[i]]
    ELSE Append(m, r)

\* Map.prototype.delete
MapDelete(m, id) == SelectSeq(m, LAMBDA r : r.id # id)

MapIds(m) == { m[i].id : i \in 1..Len(m) }

(* ------------------------------------------------------------ variables *)
VARIABLES
  phase,             \* "constructed" | "inited" | "loaded" | "unloaded"
  now,               \* Date.now()
  snippets,          \* this.snippets
  injectedElements,  \* this.injectedElements: id -> element
  dom,               \* bag of manager-created elements attached to document
  blob,              \* the string stored under (pluginName, "snippets")
  writeQueue,        \* setData calls in flight, each with its continuation
  calls,             \* log of the operations called, with how each settled
  registered,        \* what load() has registered with the host
  loadCalls,         \* ids loadAllEnabled passed to injectSnippet, in call order
  readyState,        \* document.readyState
  deferred,          \* executeCode closures waiting for DOMContentLoaded or a frame
  events,            \* what the last step ran and notified (orca.notify)
  managerPopupVisible,   \* this.managerPopupVisible
  managerContainers,     \* the manager containers created so far, in creation order
  editContainers,        \* number of edit containers attached to the document
  maxCalls           \* how many calls of the manager's operations the run makes

\* the document's readiness and the closures waiting on it
engineVars == <<readyState, deferred>>

\* the state of the manager popup
uiVars == <<managerPopupVisible, managerContainers, editContainers>>

vars == <<phase, now, snippets, injectedElements, dom, blob, writeQueue, calls,
          registered, loadCalls, readyState, deferred, events, uiVars, maxCalls>>

(* ------------------------------------------------------ injection engine *)
\* The code of a JS snippet is read one character per statement:
\*   "q", "Q"  a statement naming a DOM keyword (querySelector, in either case)
\*   "!"       throw new Error(...)
\*   "0"       throw null
\*   "("       text that is no JavaScript (new Function rejects it)
\* and any other character is a statement that runs and does nothing more.

\* String.prototype.toLowerCase, on the characters that matter
ToLowerCase(c) == IF c = "Q" THEN "q" ELSE c

\* checkIfNeedsDOMReady(code): some keyword occurs in the lower-cased code
CheckIfNeedsDOMReady(code) == \E i \in 1..Len(code) : ToLowerCase(code[i]) = "q"

\* validateJavaScript(code).valid; injectSnippet drops the result
ValidateJavaScript(code) ==
  /\ Trim(code) # <<>>
  /\ \A i \in 1..Len(code) : code[i] # "("

\* what executeCode() comes to for a code:
\*   "ok"      the function was built and returned
\*   "caught"  new Function or the call threw an Error: the catch notifies
\*   "escaped" the call threw null: the catch reads error.message of null,
\*             and that TypeError leaves executeCode
ExecuteCode(code) ==
  IF \E i \in 1..Len(code) : code[i] = "(" THEN "caught"
  ELSE LET throws == { i \in 1..Len(code) : code[i] \in {"!", "0"} }
       IN  IF throws = {} THEN "ok"
           ELSE IF code[CHOOSE i \in throws : \A j \in throws : i <= j] = "!"
                  THEN "caught" ELSE "escaped"

\* the events of one call of executeCode(); how: "sync" (inside injectSnippet),
\* "DOMContentLoaded" or "frame"
RunEvent(snippet, how) ==
  [ev |-> "run", sid |-> snippet.id, code |-> snippet.content, how |-> how]
NotifyEvent(snippet, msg) ==
  [ev |-> "notify", name |-> snippet.name, msg |-> msg]

Executed(snippet, how) ==
  <<RunEvent(snippet, how)>> \o
  (IF ExecuteCode(snippet.content) = "caught"
     THEN <<NotifyEvent(snippet, "JavaScript error in")>> ELSE <<>>)

\* the timing without the branch for a complete document: code that names the
\* DOM always waits
Timing_AlwaysWaits(code) ==
  IF ~CheckIfNeedsDOMReady(code) THEN "sync"
  ELSE IF readyState = "loading" THEN "DOMContentLoaded"
  ELSE "frame"

\* when injectSnippet calls executeCode for a JS snippet
Timing(code) ==
  IF ~CheckIfNeedsDOMReady(code) THEN "sync"
  ELSE IF readyState = "loading" THEN "DOMContentLoaded"
  ELSE IF readyState = "complete" THEN "sync"
  ELSE "frame"

\* The element injectSnippet creates for a record: a <style> holding the
\* content, or the hidden tracker <div> left behind after the code ran.
NewElement(snippet) ==
  IF snippet.type = "css"
    THEN [tag |-> "style", sid |-> snippet.id, from |-> snippet.content]
    ELSE [tag |-> "div",   sid |-> snippet.id, from |-> snippet.content]

\* a call that leaves the pair <<injectedElements, dom>> as it is, runs
\* nothing (ev) and defers nothing (df)
Untouched(inj, d) == [inj |-> inj, dom |-> d, ev |-> <<>>, df |-> <<>>]

\* removeSnippet(snippetId) on the pair <<injectedElements, dom>>
RemoveSnippet(inj, d, id) ==
  IF id \in DOMAIN inj
    THEN [inj |-> [k \in DOMAIN inj \ {id} |-> inj[k]],
          dom |-> d (-) SetToBag({inj[id]}),
          ev |-> <<>>, df |-> <<>>]
    ELSE Untouched(inj, d)

\* the new element of a snippet attached and recorded
Attach(inj, d, snippet) ==
  [inj |-> [k \in DOMAIN inj \cup {snippet.id} |->
              IF k = snippet.id THEN NewElement(snippet) ELSE inj[k]],
   dom |-> d (+) SetToBag({NewElement(snippet)})]

\* injectSnippet for a CSS or JS snippet, after its removeSnippet: r is the
\* pair to attach to
InjectInto(r, snippet) ==
  LET on  == Attach(r.inj, r.dom, snippet)
      how == Timing(snippet.content)
  IN  IF snippet.type = "css" THEN
        [inj |-> on.inj, dom |-> on.dom, ev |-> <<>>, df |-> <<>>]
      ELSE IF how # "sync" THEN
        [inj |-> on.inj, dom |-> on.dom, ev |-> <<>>,
         df |-> <<[on |-> how, snippet |-> snippet]>>]
      ELSE IF ExecuteCode(snippet.content) = "escaped" THEN
        \* the outer catch: a notification, and no tracker element
        [inj |-> r.inj, dom |-> r.dom,
         ev |-> <<RunEvent(snippet, "sync"),
                  NotifyEvent(snippet, "Failed to inject JavaScript")>>,
         df |-> <<>>]
      ELSE
        [inj |-> on.inj, dom |-> on.dom, ev |-> Executed(snippet, "sync"), df |-> <<>>]

\* injectSnippet without its leading removeSnippet: the new element is
\* attached and recorded, the old one stays attached
InjectSnippet_NoRemove(inj, d, snippet) ==
  InjectInto(Untouched(inj, d), snippet)

\* injectSnippet(snippet) on the pair <<injectedElements, dom>>
InjectSnippet(inj, d, snippet) ==
  IF snippet.type \in {"css", "js"}
    THEN InjectInto(RemoveSnippet(inj, d, snippet.id), snippet)
    ELSE RemoveSnippet(inj, d, snippet.id)

(* ------------------------------------------------------------ persistence *)
\* saveSnippets(): the string handed to setData
SaveData(m) == Stringify(JArray(m))

\* the setData call appended to the in-flight queue, with the operation
\* suspended on it (call is its index in the log) and the locals its
\* continuation uses
Issue(q, op, id, local, m, call) ==
  Append(q, [op |-> op, id |-> id, local |-> local, data |-> SaveData(m),
             call |-> call])

(* -------------------------------------------------------------- call log *)
\* status: "pending" | "resolved" | "rejected" (the operation's promise),
\*         "notFound" (threw before any await), "invalid" (stopped by a gate)
\* write:  "none" | "inflight" | "ok" | "failed" (its setData call)
Entry(op, id, arg, status, write, ret) ==
  [op |-> op, id |-> id, arg |-> arg, status |-> status, write |-> write, ret |-> ret]

Log(e) == calls' = Append(calls, e)

(* ------------------------------------------------------------ initial state *)
R1 == [id |-> <<0, 1>>, name |-> <<"n">>, content |-> <<"a">>, type |-> "css",
       enabled |-> JTrue, createdAt |-> 0, updatedAt |-> 0]
R2 == [id |-> <<0, 2>>, name |-> <<"n">>, content |-> <<"b">>, type |-> "js",
       enabled |-> JTrue, createdAt |-> 0, updatedAt |-> 1]
R3 == [id |-> <<0, 3>>, name |-> <<"n">>, content |-> <<"b">>, type |-> "js",
       enabled |-> JFalse, createdAt |-> 0, updatedAt |-> 0]

JNull   == [null |-> TRUE]
Garbage == [garbage |-> TRUE]      \* a text JSON.parse rejects

\* what the host's storage may hold at load: nothing, the array an earlier
\* session saved (R2 inserted first and edited after R1 was added), or a
\* damaged text: no JSON, no array, an array with a null in it
InitialBlobs ==
  { Absent,
    Stringify(JArray(<<R2, R1>>)),
    Garbage,
    Stringify(JObject),
    Stringify(JArray(<<R3, JNull>>)) }

\* the manager as its constructor leaves it, before load() has done anything
Constructed ==
  /\ phase = "constructed"
  /\ now = 2
  /\ snippets = <<>>
  /\ injectedElements = <<>>
  /\ dom = EmptyBag
  /\ writeQueue = <<>>
  /\ calls = <<>>
  /\ registered = {}
  /\ loadCalls = <<>>
  /\ deferred = <<>>
  /\ events = <<>>
  /\ managerPopupVisible = FALSE
  /\ managerContainers = <<>>
  /\ editContainers = 0

\* the plugin is loaded into a running application: the document is complete
Init ==
  /\ Constructed
  /\ blob \in InitialBlobs
  /\ readyState = "complete"
  /\ maxCalls = MaxOps

(* ------------------------------------------------------------- read side *)
\* the comparator without its tie-break on updatedAt
Compare_CreatedOnly(a, b) == a.createdAt - b.createdAt

\* the comparator of getAllSnippets
Compare(a, b) ==
  IF a.createdAt # b.createdAt THEN a.createdAt - b.createdAt
                               ELSE a.updatedAt - b.updatedAt

\* one step of a stable sort: r goes behind every element not greater than it
InsertSorted(sorted, r) ==
  LET k == Cardinality({ i \in 1..Len(sorted) : Compare(sorted[i], r) <= 0 })
  IN  SubSeq(sorted, 1, k) \o <<r>> \o SubSeq(sorted, k + 1, Len(sorted))

\* getAllSnippets(): Array.from(this.snippets.values()).sort(comparator)
GetAllSnippets(m) ==
  LET F[i \in 0..Len(m)] == IF i = 0 THEN <<>> ELSE InsertSorted(F[i - 1], m[i])
  IN  F[Len(m)]

\* getSnippet(snippetId)
GetSnippet(id) == MapGet(snippets, id)

(* ------------------------------------------------------------------ init *)
\* snippetsArray.forEach(snippet => this.snippets.set(snippet.id, snippet)):
\* reading .id of null throws, and the elements before it have been set
LoadItem(st, item) ==
  IF st.thrown THEN st
  ELSE IF item = JNull THEN [st EXCEPT !.thrown = TRUE]
  ELSE [st EXCEPT !.m = MapSet(@, item)]

LoadItems(m, arr) ==
  LET F[i \in 0..Len(arr)] ==
        IF i = 0 THEN [m |-> m, thrown |-> FALSE] ELSE LoadItem(F[i - 1], arr[i])
  IN  F[Len(arr)].m

\* init injecting the enabled records as it loads them
InitLoad_Injecting ==
  /\ phase = "constructed"
  /\ phase' = "inited"
  /\ snippets' =
       IF blob = Absent THEN snippets
       ELSE IF ~ParseOk(blob) THEN snippets
       ELSE IF ~IsArray(Parse(blob)) THEN snippets
       ELSE LoadItems(snippets, Parse(blob).items)
  /\ LET F[i \in 0..Len(snippets')] ==
           IF i = 0 THEN Untouched(injectedElements, dom)
           ELSE IF Truthy(snippets'[i].enabled)
                  THEN InjectSnippet(F[i - 1].inj, F[i - 1].dom, snippets'[i])
                  ELSE F[i - 1]
     IN  /\ injectedElements' = F[Len(snippets')].inj
         /\ dom' = F[Len(snippets')].dom
  /\ events' = <<>>
  /\ UNCHANGED <<now, blob, writeQueue, calls, registered, loadCalls,
                 readyState, deferred, uiVars, maxCalls>>

\* SnippetManager.init(), awaited by load() before anything else runs; what
\* JSON.parse or forEach throws is caught and dropped
InitLoad ==
  /\ phase = "constructed"
  /\ phase' = "inited"
  /\ snippets' =
       IF blob = Absent THEN snippets
       ELSE IF ~ParseOk(blob) THEN snippets
       ELSE IF ~IsArray(Parse(blob)) THEN snippets
       ELSE LoadItems(snippets, Parse(blob).items)
  /\ UNCHANGED <<now, injectedElements, dom, blob, writeQueue, calls,
                 registered, loadCalls, engineVars, uiVars, maxCalls>>
  /\ events' = <<>>

\* what load() registers with the host after loadAllEnabled
Registrations == { "openManager", "headbarButton" }

\* loadAllEnabled walking the records in the order of getAllSnippets
LoadAllEnabled_Sorted ==
  /\ phase = "inited"
  /\ phase' = "loaded"
  /\ LET all == GetAllSnippets(snippets)
         F[i \in 0..Len(snippets)] ==
           IF i = 0 THEN [inj |-> injectedElements, dom |-> dom, ids |-> <<>>,
                          ev |-> <<>>, df |-> <<>>]
           ELSE IF Truthy(all[i].enabled)
                  THEN LET r == InjectSnippet(F[i - 1].inj, F[i - 1].dom, all[i])
                       IN  [inj |-> r.inj, dom |-> r.dom,
                            ids |-> Append(F[i - 1].ids, all[i].id),
                            ev |-> F[i - 1].ev \o r.ev, df |-> F[i - 1].df \o r.df]
                  ELSE F[i - 1]
     IN  /\ injectedElements' = F[Len(snippets)].inj
         /\ dom' = F[Len(snippets)].dom
         /\ loadCalls' = F[Len(snippets)].ids
         /\ events' = F[Len(snippets)].ev
         /\ deferred' = deferred \o F[Len(snippets)].df
  /\ registered' = Registrations
  /\ UNCHANGED <<now, snippets, blob, writeQueue, calls, readyState, uiVars, maxCalls>>

\* SnippetManager.loadAllEnabled() and the rest of load(): the snippets map is
\* walked in insertion order
LoadAllEnabled ==
  /\ phase = "inited"
  /\ phase' = "loaded"
  /\ LET F[i \in 0..Len(snippets)] ==
           IF i = 0 THEN [inj |-> injectedElements, dom |-> dom, ids |-> <<>>,
                          ev |-> <<>>, df |-> <<>>]
           ELSE IF Truthy(snippets[i].enabled)
                  THEN LET r == InjectSnippet(F[i - 1].inj, F[i - 1].dom, snippets[i])
                       IN  [inj |-> r.inj, dom |-> r.dom,
                            ids |-> Append(F[i - 1].ids, snippets[i].id),
                            ev |-> F[i - 1].ev \o r.ev, df |-> F[i - 1].df \o r.df]
                  ELSE F[i - 1]
     IN  /\ injectedElements' = F[Len(snippets)].inj
         /\ dom' = F[Len(snippets)].dom
         /\ loadCalls' = F[Len(snippets)].ids
         /\ events' = F[Len(snippets)].ev
         /\ deferred' = deferred \o F[Len(snippets)].df
  /\ registered' = Registrations
  /\ UNCHANGED <<now, snippets, blob, writeQueue, calls, readyState, uiVars, maxCalls>>

CanCall == phase = "loaded" /\ Len(calls) < maxCalls

\* the clock values a record carries
Stamps(rec) == {rec.id[1], rec.createdAt, rec.updatedAt}

\* the current clock value has been read: a record in the map, in the blob
\* or in a write in flight carries it, or an id made from it is in use.
\* Only the order of the values read matters, so the clock is advanced once
\* its value has been read.
ClockRead ==
  \/ \E i \in DOMAIN snippets : now \in Stamps(snippets[i])
  \/ \E w \in DOMAIN writeQueue :
        \E i \in DOMAIN Parse(writeQueue[w].data).items :
          now \in Stamps(Parse(writeQueue[w].data).items[i])
  \/ /\ blob # Absent /\ ParseOk(blob) /\ IsArray(Parse(blob))
     /\ \E i \in DOMAIN Parse(blob).items :
          Parse(blob).items[i] # JNull /\ now \in Stamps(Parse(blob).items[i])
  \/ \E id \in DOMAIN injectedElements : id[1] = now
  \/ \E k \in DOMAIN calls : calls[k].id[1] = now

\* Date.now() advances
Tick ==
  /\ now < MaxTime /\ CanCall /\ ClockRead
  /\ now' = now + 1
  /\ UNCHANGED <<phase, snippets, injectedElements, dom, blob, writeQueue,
                 calls, registered, loadCalls, engineVars, uiVars, maxCalls>>
  /\ events' = <<>>

(* ------------------------------------------------------------- mutations *)

\* the random parts of the ids generated at clock value t so far
UsedRand(m, t) ==
  { id[2] : id \in { i \in MapIds(m) \cup DOMAIN injectedElements
                               \cup { calls[k].id : k \in DOMAIN calls } : i[1] = t } }

\* outcomes of Math.random(): the values are interchangeable, so a draw is
\* one already drawn at this clock value or the least one not yet drawn
RandDraws(used) == { r \in 1..MaxRand : \A k \in 1..(r - 1) : k \in used }

\* the record addSnippet builds from its argument
NewSnippet(input, t, rnd) ==
  [id |-> GenId(t, rnd), name |-> input.name, content |-> input.content,
   type |-> input.type, enabled |-> input.enabled,
   createdAt |-> t, updatedAt |-> t]

\* arguments of a direct addSnippet call: two well-formed ones and one with
\* a blank name
AddInputs ==
  { [name |-> <<"n">>, content |-> <<"a">>, type |-> "css", enabled |-> JTrue],
    [name |-> <<"n">>, content |-> <<"b">>, type |-> "js",  enabled |-> JFalse],
    [name |-> <<" ">>, content |-> <<"a">>, type |-> "css", enabled |-> JTrue] }

\* what the edit dialog may hold when handleAdd runs: a well-formed entry,
\* a name of one space, an empty content
FormInputs ==
  { [name |-> <<"n">>, content |-> <<"a">>, type |-> "css", enabled |-> JTrue],
    [name |-> <<" ">>, content |-> <<"a">>, type |-> "css", enabled |-> JTrue],
    [name |-> <<"n">>, content |-> <<>>,    type |-> "css", enabled |-> JFalse] }

\* addSnippet(snippet) up to its await; op names the entry point used
AddSnippetCall(input, rnd, op) ==
  LET newSnippet == NewSnippet(input, now, rnd)
  IN  /\ snippets' = MapSet(snippets, newSnippet)
      /\ writeQueue' = Issue(writeQueue, "addSnippet", newSnippet.id, newSnippet,
                             snippets', Len(calls) + 1)
      /\ Log(Entry(op, newSnippet.id, input, "pending", "inflight", Undefined))
      /\ UNCHANGED <<phase, now, injectedElements, dom, blob, registered,
                     loadCalls, engineVars, uiVars, maxCalls>>
      /\ events' = <<>>

\* a direct call of the public method addSnippet
AddSnippet ==
  /\ CanCall
  /\ \E input \in AddInputs, rnd \in RandDraws(UsedRand(snippets, now)) :
       AddSnippetCall(input, rnd, "addSnippet")

\* the gate without trim(): only the empty string is turned away
FormInvalid_NoTrim(form) == form.name = <<>> \/ form.content = <<>>

\* the validation gate of handleAdd
FormInvalid(form) == Trim(form.name) = <<>> \/ Trim(form.content) = <<>>

\* handleAdd of the edit dialog: gate, then addSnippet
HandleAdd ==
  /\ CanCall
  /\ \E form \in FormInputs, rnd \in RandDraws(UsedRand(snippets, now)) :
       IF FormInvalid(form)
         THEN /\ Log(Entry("handleAdd", NoId, form, "invalid", "none", Undefined))
              /\ UNCHANGED <<phase, now, snippets, injectedElements, dom,
                             blob, writeQueue, registered, loadCalls,
                             engineVars, uiVars, maxCalls>>
              /\ events' = <<>>
         ELSE AddSnippetCall(form, rnd, "handleAdd")

\* the merge without the refresh of updatedAt
Merge_KeepStamp(snippet, updates, t) ==
  [f \in DOMAIN snippet |->
     IF f \in DOMAIN updates THEN updates[f] ELSE snippet[f]]

\* { ...snippet, ...updates, updatedAt: Date.now() }
Merge(snippet, updates, t) ==
  [f \in DOMAIN snippet |->
     IF f = "updatedAt" THEN t
     ELSE IF f \in DOMAIN updates THEN updates[f]
     ELSE snippet[f]]

\* argument of update: a new content
UpdateInputs ==
  { [content |-> <<"b">>] }

\* updateSnippet without its not-found check: an unknown id is upserted
UpdateSnippetCall_NoCheck(id, updates, op) ==
  LET snippet == MapGet(snippets, id)
      base    == IF snippet = Undefined
                   THEN [id |-> id, name |-> <<>>, content |-> <<>>, type |-> "css",
                         enabled |-> JFalse, createdAt |-> now, updatedAt |-> now]
                   ELSE snippet
      updatedSnippet == Merge(base, updates, now)
  IN  /\ snippets' = MapSet(snippets, updatedSnippet)
      /\ writeQueue' = Issue(writeQueue, "updateSnippet", id, updatedSnippet,
                             snippets', Len(calls) + 1)
      /\ Log(Entry(op, id, updates, "pending", "inflight", Undefined))
      /\ UNCHANGED <<phase, now, injectedElements, dom, blob, registered,
                     loadCalls, engineVars, uiVars, maxCalls>>
      /\ events' = <<>>

\* updateSnippet(snippetId, updates) up to its await, or its throw
UpdateSnippetCall(id, updates, op) ==
  LET snippet == MapGet(snippets, id)
  IN  IF snippet = Undefined
        THEN /\ Log(Entry(op, id, updates, "notFound", "none", Undefined))
             /\ UNCHANGED <<phase, now, snippets, injectedElements, dom,
                            blob, writeQueue, registered, loadCalls,
                            engineVars, uiVars, maxCalls>>
             /\ events' = <<>>
        ELSE LET updatedSnippet == Merge(snippet, updates, now)
             IN  /\ snippets' = MapSet(snippets, updatedSnippet)
                 /\ writeQueue' = Issue(writeQueue, "updateSnippet", id, updatedSnippet,
                                        snippets', Len(calls) + 1)
                 /\ Log(Entry(op, id, updates, "pending", "inflight", Undefined))
                 /\ UNCHANGED <<phase, now, injectedElements, dom, blob,
                                registered, loadCalls, engineVars, uiVars,
                                maxCalls>>
                 /\ events' = <<>>

\* ids a caller may pass: the ids it can know of, and one nobody has
IdArgs == MapIds(snippets) \cup DOMAIN injectedElements \cup {NoId}

UpdateSnippet ==
  /\ CanCall
  /\ \E id \in IdArgs, updates \in UpdateInputs :
       UpdateSnippetCall(id, updates, "updateSnippet")

\* toggleSnippet(snippetId)
ToggleSnippet ==
  /\ CanCall
  /\ \E id \in IdArgs :
       LET snippet == MapGet(snippets, id)
       IN  IF snippet = Undefined
             THEN /\ Log(Entry("toggleSnippet", id, Undefined, "notFound", "none", Undefined))
                  /\ UNCHANGED <<phase, now, snippets, injectedElements, dom,
                                 blob, writeQueue, registered, loadCalls,
                                 engineVars, uiVars, maxCalls>>
                  /\ events' = <<>>
             ELSE UpdateSnippetCall(id, [enabled |-> Not(snippet.enabled)], "toggleSnippet")

\* deleteSnippet(snippetId) up to its await
DeleteSnippet ==
  /\ CanCall
  /\ \E id \in IdArgs :
       LET r == RemoveSnippet(injectedElements, dom, id)
       IN  /\ injectedElements' = r.inj
           /\ dom' = r.dom
           /\ snippets' = MapDelete(snippets, id)
           /\ writeQueue' = Issue(writeQueue, "deleteSnippet", id, Undefined, snippets',
                                  Len(calls) + 1)
           /\ Log(Entry("deleteSnippet", id, Undefined, "pending", "inflight", Undefined))
           /\ UNCHANGED <<phase, now, blob, registered, loadCalls,
                          engineVars, uiVars, maxCalls>>
           /\ events' = <<>>

(* ---------------------------------------------------------------- import *)
ItemPlain   == [name |-> <<"n">>, content |-> <<"a">>, type |-> "css"]
ItemOld     == [id |-> <<0, 1>>, name |-> <<"n">>, content |-> <<"b">>, type |-> "css",
                enabled |-> JTrue, createdAt |-> 0, updatedAt |-> 0]
ItemNoBody  == [name |-> <<"n">>, type |-> "css"]
ItemBadType == [name |-> <<"n">>, content |-> <<"a">>, type |-> "html"]
\* an item whose enabled is the string "false", not the boolean
ItemQuoted  == [name |-> <<"n">>, content |-> <<"b">>, type |-> "css",
                enabled |-> "\"false\""]

\* contents of the files a user may select
ImportFiles ==
  { Garbage,
    Stringify(JObject),
    Stringify(JNull),
    Stringify(JArray(<<ItemOld, ItemNoBody, ItemPlain>>)),
    Stringify(JArray(<<ItemOld, JNull>>)),
    Stringify(JArray(<<ItemBadType>>)) }

\* files that tell the order and the flags of the imported records: one
\* whose first item has no createdAt and whose last carries an old one, and
\* one without any createdAt
StampFiles ==
  { Stringify(JArray(<<ItemPlain, ItemNoBody, ItemOld>>)),
    Stringify(JArray(<<ItemBadType, ItemPlain, ItemQuoted>>)) }

\* !item.f for a text field (name, content), and !item.type
Falsy(item, f) == f \notin DOMAIN item \/ item[f] = <<>>
NoType(item) == "type" \notin DOMAIN item \/ item.type = ""

\* item.name || "unknown"
NameOrUnknown(item) == IF Falsy(item, "name") THEN <<"?">> ELSE item.name

\* item.f ?? dflt
OrElse(item, f, dflt) == IF f \in DOMAIN item THEN item[f] ELSE dflt

\* baseTime without the step: every item of a batch gets the clock value
BaseTime_NoStep(t, success) == t

\* const baseTime = now + success * 1000
BaseTime(t, success) == t + success * ImportStep

\* one turn of the for loop of importSnippets; st.thrown is set when the
\* loop is left by an exception the inner catch does not contain
ImportItem(st, item, t, rnd) ==
  IF st.thrown THEN st
  ELSE IF item = JNull THEN [st EXCEPT !.thrown = TRUE]
  ELSE IF Falsy(item, "name") \/ Falsy(item, "content") \/ NoType(item) THEN
    [st EXCEPT !.failed = @ + 1,
               !.errors = Append(@, <<NameOrUnknown(item), "missing required fields">>)]
  ELSE IF item.type \notin {"css", "js"} THEN
    [st EXCEPT !.failed = @ + 1,
               !.errors = Append(@, <<item.name, "Invalid snippet type">>)]
  ELSE
    LET baseTime   == BaseTime(t, st.success)
        newSnippet == [id |-> GenId(t, rnd), name |-> item.name,
                       content |-> item.content, type |-> item.type,
                       enabled |-> OrElse(item, "enabled", JFalse),
                       createdAt |-> OrElse(item, "createdAt", baseTime),
                       updatedAt |-> OrElse(item, "updatedAt", baseTime)]
        r == IF Truthy(newSnippet.enabled) THEN InjectSnippet(st.inj, st.dom, newSnippet)
                                           ELSE Untouched(st.inj, st.dom)
    IN  [st EXCEPT !.m = MapSet(@, newSnippet), !.success = @ + 1,
                   !.inj = r.inj, !.dom = r.dom,
                   !.ev = @ \o r.ev, !.df = @ \o r.df]

\* the whole for loop
ImportLoop(items, m, inj, d, t, rnds) ==
  LET F[i \in 0..Len(items)] ==
        IF i = 0 THEN [m |-> m, inj |-> inj, dom |-> d, success |-> 0, failed |-> 0,
                       errors |-> <<>>, thrown |-> FALSE, ev |-> <<>>, df |-> <<>>]
        ELSE ImportItem(F[i - 1], items[i], t, rnds[i])
  IN  F[Len(items)]

\* the summary the outer catch resolves with: failed is importedSnippets.length || 1
CaughtSummary(n, msg) ==
  [success |-> 0, failed |-> IF n = 0 THEN 1 ELSE n, errors |-> <<msg>>]

\* the draws of one batch, one per item
RandRuns(n, used) ==
  { rnds \in [1..n -> 1..MaxRand] :
      \A i \in 1..n : rnds[i] \in RandDraws(used \cup { rnds[j] : j \in 1..(i - 1) }) }

\* reader.onload of importSnippets(file) up to its await or its resolve, for
\* a file out of files
ImportFrom(files) ==
  /\ CanCall
  /\ \E file \in files :
       IF ~ParseOk(file) THEN
         /\ Log(Entry("importSnippets", NoId, file, "resolved", "none",
                      CaughtSummary(0, "parse error")))
         /\ UNCHANGED <<phase, now, snippets, injectedElements, dom, blob,
                        writeQueue, registered, loadCalls, engineVars,
                        uiVars, maxCalls>>
         /\ events' = <<>>
       ELSE IF ~IsArray(Parse(file)) THEN
         \* the outer catch reads importedSnippets.length: of null that throws
         \* again, out of the handler, and resolve is never called
         /\ IF Parse(file) = JNull
              THEN Log(Entry("importSnippets", NoId, file, "pending", "none", Undefined))
              ELSE Log(Entry("importSnippets", NoId, file, "resolved", "none",
                             CaughtSummary(0, "expected an array of snippets")))
         /\ UNCHANGED <<phase, now, snippets, injectedElements, dom, blob,
                        writeQueue, registered, loadCalls, engineVars,
                        uiVars, maxCalls>>
         /\ events' = <<>>
       ELSE \E rnds \in RandRuns(Len(Parse(file).items), UsedRand(snippets, now)) :
         LET items == Parse(file).items
             st    == ImportLoop(items, snippets, injectedElements, dom, now, rnds)
             sum   == [success |-> st.success, failed |-> st.failed, errors |-> st.errors]
         IN  /\ snippets' = st.m
             /\ injectedElements' = st.inj
             /\ dom' = st.dom
             /\ events' = st.ev
             /\ deferred' = deferred \o st.df
             /\ IF st.thrown THEN
                  /\ Log(Entry("importSnippets", NoId, file, "resolved", "none",
                               CaughtSummary(Len(items), "type error")))
                  /\ UNCHANGED writeQueue
                ELSE IF st.success > 0 THEN
                  /\ writeQueue' = Issue(writeQueue, "importSnippets", NoId,
                                         [sum |-> sum, n |-> Len(items)], snippets',
                                         Len(calls) + 1)
                  /\ Log(Entry("importSnippets", NoId, file, "pending", "inflight",
                               Undefined))
                ELSE
                  /\ Log(Entry("importSnippets", NoId, file, "resolved", "none", sum))
                  /\ UNCHANGED writeQueue
             /\ UNCHANGED <<phase, now, blob, registered, loadCalls,
                            readyState, uiVars, maxCalls>>

\* importSnippets(file), the user having selected one of ImportFiles
ImportSnippets == ImportFrom(ImportFiles)

\* importSnippets(file), the user having selected one of StampFiles
ImportStamped == ImportFrom(StampFiles)

\* reader.onerror of importSnippets(file)
ImportReadError ==
  /\ CanCall
  /\ Log(Entry("importSnippets", NoId, Undefined, "resolved", "none",
               [success |-> 0, failed |-> 0, errors |-> <<"Failed to read file">>]))
  /\ UNCHANGED <<phase, now, snippets, injectedElements, dom, blob,
                 writeQueue, registered, loadCalls, engineVars, uiVars,
                 maxCalls>>
  /\ events' = <<>>

(* ---------------------------------------------------------------- export *)
\* the text exportSnippets() puts in the downloaded file
ExportFile(m) == Stringify(JArray(GetAllSnippets(m)))

\* exportSnippets(): the manager's state is left alone
ExportSnippets ==
  /\ CanCall
  /\ Log(Entry("exportSnippets", NoId, Undefined, "resolved", "none", ExportFile(snippets)))
  /\ UNCHANGED <<phase, now, snippets, injectedElements, dom, blob,
                 writeQueue, registered, loadCalls, engineVars, uiVars,
                 maxCalls>>
  /\ events' = <<>>

(* -------------------------------------------------------------- teardown *)
\* cleanup() on the pair <<injectedElements, dom>>
Cleanup(inj, d) ==
  [inj |-> <<>>, dom |-> d (-) SetToBag({ inj[k] : k \in DOMAIN inj })]

\* unload() of main.ts
Unload ==
  /\ phase = "loaded"
  /\ phase' = "unloaded"
  /\ LET r == Cleanup(injectedElements, dom)
     IN  injectedElements' = r.inj /\ dom' = r.dom
  /\ registered' = {}
  /\ UNCHANGED <<now, snippets, blob, writeQueue, calls, loadCalls,
                 engineVars, uiVars, maxCalls>>
  /\ events' = <<>>

(* ------------------------------------------------------ write resolution *)
\* what the suspended method does to <<injectedElements, dom>> once its
\* saveSnippets() has resolved
Continue(w, inj, d) ==
  IF w.op = "addSnippet" THEN
    IF Truthy(w.local.enabled) THEN InjectSnippet(inj, d, w.local) ELSE Untouched(inj, d)
  ELSE IF w.op = "updateSnippet" THEN
    IF Truthy(w.local.enabled) THEN InjectSnippet(inj, d, w.local)
                       ELSE RemoveSnippet(inj, d, w.id)
  ELSE Untouched(inj, d)

\* how the suspended method settles when setData resolved
OnWriteOk(w) ==
  IF w.op = "importSnippets" THEN [status |-> "resolved", ret |-> w.local.sum]
  ELSE IF w.op = "deleteSnippet" THEN [status |-> "resolved", ret |-> Undefined]
  ELSE [status |-> "resolved", ret |-> w.local]

\* saveSnippets catching the error of setData: the method resolves as if the
\* write had gone through
OnWriteError_Swallow(w) ==
  IF w.op = "importSnippets" THEN [status |-> "resolved", ret |-> w.local.sum]
  ELSE IF w.op = "deleteSnippet" THEN [status |-> "resolved", ret |-> Undefined]
  ELSE [status |-> "resolved", ret |-> w.local]

\* how the suspended method settles when setData rejected
OnWriteError(w) ==
  IF w.op = "importSnippets"
    THEN [status |-> "resolved", ret |-> CaughtSummary(w.local.n, "write failed")]
    ELSE [status |-> "rejected", ret |-> Undefined]

\* the log once the operation suspended on w has settled
Settle(w, outcome, write) ==
  [calls EXCEPT ![w.call] = [@ EXCEPT !.status = outcome.status, !.ret = outcome.ret,
                                      !.write = write]]

\* the head setData call resolves
WriteOk ==
  /\ writeQueue # <<>>
  /\ LET w == Head(writeQueue)
         r == Continue(w, injectedElements, dom)
     IN  /\ blob' = w.data
         /\ injectedElements' = r.inj
         /\ dom' = r.dom
         /\ events' = r.ev
         /\ deferred' = deferred \o r.df
         /\ calls' = Settle(w, OnWriteOk(w), "ok")
  /\ writeQueue' = Tail(writeQueue)
  /\ UNCHANGED <<phase, now, snippets, registered, loadCalls, readyState, uiVars, maxCalls>>

\* the head setData call rejects
WriteFail ==
  /\ writeQueue # <<>>
  /\ LET w == Head(writeQueue)
     IN  /\ calls' = Settle(w, OnWriteError(w), "failed")
  /\ writeQueue' = Tail(writeQueue)
  /\ UNCHANGED <<phase, now, snippets, injectedElements, dom, blob,
                 registered, loadCalls, engineVars, uiVars, maxCalls>>
  /\ events' = <<>>

Next ==
  \/ InitLoad \/ LoadAllEnabled \/ Tick
  \/ AddSnippet \/ HandleAdd \/ UpdateSnippet \/ ToggleSnippet \/ DeleteSnippet
  \/ ImportSnippets \/ ImportReadError \/ ExportSnippets \/ Unload
  \/ WriteOk \/ WriteFail

Spec == Init /\ [][Next]_vars

(* ------------------------------------------- imports that tell the order *)
ImportNext ==
  \/ InitLoad \/ LoadAllEnabled \/ Tick
  \/ ImportStamped
  \/ WriteOk \/ WriteFail

\* the manager importing the files of StampFiles
ImportSpec == Init /\ [][ImportNext]_vars

(* ------------------------------------------ the document and its events *)
\* the closures registered for a trigger ("DOMContentLoaded" or "frame"), in
\* the order of their registration
Waiting(on) == SelectSeq(deferred, LAMBDA e : e.on = on)

\* the closures that stay registered once the trigger has called its own;
\* nothing else takes a closure out
StillWaiting_Kept(on) == deferred
StillWaiting(on) == SelectSeq(deferred, LAMBDA e : e.on # on)

\* the trigger calls each of its closures: executeCode() with the snippet it
\* closed over. What leaves executeCode here is an uncaught error of the
\* event loop, outside every catch of the manager.
Fired(on) ==
  LET w == Waiting(on)
      F[i \in 0..Len(w)] ==
        IF i = 0 THEN <<>> ELSE F[i - 1] \o Executed(w[i].snippet, on)
  IN  F[Len(w)]

\* the parser has finished: readyState turns interactive and the listeners
\* added by document.addEventListener("DOMContentLoaded", executeCode) run
DOMContentLoaded ==
  /\ readyState = "loading"
  /\ readyState' = "interactive"
  /\ events' = Fired("DOMContentLoaded")
  /\ deferred' = StillWaiting("DOMContentLoaded")
  /\ UNCHANGED <<phase, now, snippets, injectedElements, dom, blob, writeQueue,
                 calls, registered, loadCalls, uiVars, maxCalls>>

\* the load event: readyState turns complete
WindowLoad ==
  /\ readyState = "interactive"
  /\ readyState' = "complete"
  /\ events' = <<>>
  /\ UNCHANGED <<phase, now, snippets, injectedElements, dom, blob, writeQueue,
                 calls, registered, loadCalls, deferred, uiVars, maxCalls>>

\* the next frame: the callbacks of requestAnimationFrame(executeCode) run
AnimationFrame ==
  /\ Waiting("frame") # <<>>
  /\ events' = Fired("frame")
  /\ deferred' = StillWaiting("frame")
  /\ UNCHANGED <<phase, now, snippets, injectedElements, dom, blob, writeQueue,
                 calls, registered, loadCalls, readyState, uiVars, maxCalls>>

\* JS records: J1 names the DOM, J2 throws null, J3 is no JavaScript, J4 names
\* the DOM and throws an Error, J5 is J2's code switched off, J6 names the
\* DOM and throws null
J1 == [id |-> <<0, 1>>, name |-> <<"n">>, content |-> <<"q">>, type |-> "js",
       enabled |-> JTrue, createdAt |-> 0, updatedAt |-> 0]
J2 == [id |-> <<0, 2>>, name |-> <<"n">>, content |-> <<"0">>, type |-> "js",
       enabled |-> JTrue, createdAt |-> 1, updatedAt |-> 1]
J3 == [id |-> <<0, 3>>, name |-> <<"n">>, content |-> <<"(">>, type |-> "js",
       enabled |-> JTrue, createdAt |-> 0, updatedAt |-> 0]
J4 == [id |-> <<0, 4>>, name |-> <<"n">>, content |-> <<"Q", "!">>, type |-> "js",
       enabled |-> JTrue, createdAt |-> 1, updatedAt |-> 1]
J5 == [id |-> <<0, 5>>, name |-> <<"n">>, content |-> <<"0">>, type |-> "js",
       enabled |-> JFalse, createdAt |-> 0, updatedAt |-> 0]
J6 == [id |-> <<0, 6>>, name |-> <<"n">>, content |-> <<"q", "0">>, type |-> "js",
       enabled |-> JTrue, createdAt |-> 1, updatedAt |-> 1]

\* what storage holds when the engine is exercised
EngineBlobs ==
  { Stringify(JArray(<<J1, J2, R1>>)),
    Stringify(JArray(<<J3, J4>>)),
    Stringify(JArray(<<J5, J6>>)) }

\* the plugin is loaded at any point of the document's life
EngineInit ==
  /\ Constructed
  /\ blob \in EngineBlobs
  /\ readyState \in {"loading", "interactive", "complete"}
  /\ maxCalls = MaxOps - 1

EngineNext ==
  \/ InitLoad \/ LoadAllEnabled
  \/ UpdateSnippet \/ ToggleSnippet \/ DeleteSnippet \/ Unload
  \/ WriteOk
  \/ DOMContentLoaded \/ WindowLoad \/ AnimationFrame

EngineSpec == EngineInit /\ [][EngineNext]_vars

\* the event loop gets to every event that is due
EngineFairSpec ==
  /\ EngineSpec
  /\ WF_vars(DOMContentLoaded)
  /\ WF_vars(AnimationFrame)

(* ------------------------------------------------- calls that overlap *)
\* one more call than in the other runs, on the stored array of an earlier
\* session: room for a call made while two others are in flight
OverlapInit ==
  /\ Constructed
  /\ blob = Stringify(JArray(<<R2, R1>>))
  /\ readyState = "complete"
  /\ maxCalls = MaxOps + 1

OverlapNext ==
  \/ InitLoad \/ LoadAllEnabled
  \/ UpdateSnippet \/ DeleteSnippet
  \/ WriteOk

OverlapSpec == OverlapInit /\ [][OverlapNext]_vars

(* ------------------------------------------------------ manager popup *)
\* A manager container, as openManager creates it: appended to the body, its
\* ManagerMenu rendered with visible = true, and the timer of the second
\* renderMenu pending.
NewContainer == [attached |-> TRUE, shown |-> TRUE, timer |-> TRUE]

\* the manager containers in the document, by their place in creation order
AttachedContainers == { i \in 1..Len(managerContainers) : managerContainers[i].attached }

\* document.getElementById(`${pluginName}-manager-container`): the first one
\* in the document, 0 for null
GetManagerContainer ==
  IF AttachedContainers = {} THEN 0
  ELSE CHOOSE i \in AttachedContainers : \A j \in AttachedContainers : i <= j

\* getElementById of the edit container, found and removed: one fewer
RemoveEditContainer(n) == IF n > 0 THEN n - 1 ELSE 0

\* openManager(), called by the command or the headbar button
OpenManager ==
  /\ "openManager" \in registered
  /\ IF managerPopupVisible
       THEN \* a menu is open: close it
            /\ managerPopupVisible' = FALSE
            /\ managerContainers' =
                 IF GetManagerContainer = 0 THEN managerContainers
                 ELSE [managerContainers EXCEPT ![GetManagerContainer].attached = FALSE]
            /\ editContainers' = RemoveEditContainer(editContainers)
       ELSE /\ Len(managerContainers) < MaxOpens
            /\ managerContainers' = Append(managerContainers, NewContainer)
            /\ editContainers' =
                 RemoveEditContainer(RemoveEditContainer(editContainers)) + 1
            \* renderMenu(), called at once
            /\ managerPopupVisible' = TRUE
  /\ events' = <<>>
  /\ UNCHANGED <<phase, now, snippets, injectedElements, dom, blob, writeQueue,
                 calls, registered, loadCalls, engineVars, maxCalls>>

\* setTimeout(renderMenu, 10) of some openManager call comes due: renderMenu
\* renders into the root of its own container, attached or not
RenderTimer ==
  /\ \E i \in 1..Len(managerContainers) :
       /\ managerContainers[i].timer
       /\ managerContainers' = [managerContainers EXCEPT ![i].timer = FALSE]
  /\ managerPopupVisible' = TRUE
  /\ events' = <<>>
  /\ UNCHANGED <<phase, now, snippets, injectedElements, dom, blob, writeQueue,
                 calls, registered, loadCalls, engineVars, editContainers, maxCalls>>

\* handleClose of a menu on screen (onClose of its Popup: a click outside or
\* Escape). onClosed makes the same two assignments. The effect's cleanup runs
\* with the visible = true of the render it belongs to and does nothing.
HandleClose ==
  /\ \E i \in AttachedContainers :
       /\ managerContainers[i].shown
       /\ managerContainers' = [managerContainers EXCEPT ![i].shown = FALSE]
  /\ managerPopupVisible' = FALSE
  /\ events' = <<>>
  /\ UNCHANGED <<phase, now, snippets, injectedElements, dom, blob, writeQueue,
                 calls, registered, loadCalls, engineVars, editContainers, maxCalls>>

\* the plugin with nothing stored, and its user opening and closing the menu
PopupInit ==
  /\ Constructed
  /\ blob = Absent
  /\ readyState = "complete"
  /\ maxCalls = 0

PopupNext ==
  \/ InitLoad \/ LoadAllEnabled
  \/ OpenManager \/ RenderTimer \/ HandleClose
  \/ Unload

PopupSpec == PopupInit /\ [][PopupNext]_vars

(* ---------------------------------------------------------------- claims *)
Tracked(id) == id \in DOMAIN injectedElements
Idle == writeQueue = <<>>
Settled(i) == calls[i].status # "pending"
Latest == Len(calls)     \* index in calls of the call made last, or 0

\* C1: after loadAllEnabled, whenever no operation is suspended on a
\* persistence write, an id has an entry in injectedElements if and only if
\* the snippets map holds an enabled record with that id.
C1_InjectedIffEnabled ==
  (phase = "loaded" /\ Idle) =>
    \A id \in MapIds(snippets) \cup DOMAIN injectedElements :
      Tracked(id) <=> (MapHas(snippets, id) /\ Truthy(MapGet(snippets, id).enabled))

\* C2: every attached manager element is attached once, is the element
\* injectedElements records for its snippet id, and every recorded element is
\* attached; so no snippet id has two attached elements.
C2_OneElementPerId ==
  /\ \A el \in BagToSet(dom) :
       /\ CopiesIn(el, dom) = 1
       /\ Tracked(el.sid)
       /\ injectedElements[el.sid] = el
  /\ \A id \in DOMAIN injectedElements : BagIn(injectedElements[id], dom)

\* C2 witness: two updateSnippet calls for one id both went through and both
\* re-injected the enabled record, one right after the other.
C2_Witness ==
  /\ Len(calls) = 2 /\ Idle
  /\ \A i \in 1..2 :
       /\ calls[i].op = "updateSnippet" /\ calls[i].id = calls[1].id
       /\ calls[i].write = "ok" /\ Truthy(calls[i].ret.enabled)
  /\ Tracked(calls[1].id)

\* C3: once a deleteSnippet(id) call has completed, id has no entry in
\* injectedElements and getSnippet(id) is undefined, in that state and in
\* every later one.
C3_DeletedStaysGone ==
  \A i \in 1..Len(calls) :
    (calls[i].op = "deleteSnippet" /\ Settled(i)) =>
      (~Tracked(calls[i].id) /\ GetSnippet(calls[i].id) = Undefined)

\* C4: two toggleSnippet calls on an existing record leave its enabled flag
\* as it was and, once both have completed, leave an entry in
\* injectedElements exactly if the record started enabled and injected.
C4_ToggleTwice ==
  (/\ phase = "loaded" /\ Len(calls) = 2
   /\ \A i \in 1..2 : calls[i].op = "toggleSnippet" /\ calls[i].id = calls[1].id
   /\ calls[1].id \in {R1.id, R2.id})
  => LET id   == calls[1].id
         orig == IF id = R1.id THEN R1 ELSE R2
     IN  /\ GetSnippet(id).enabled = orig.enabled
         /\ (Settled(1) /\ Settled(2)) => (Tracked(id) <=> Truthy(orig.enabled))

\* a text that is empty after trimming
Blank(s) == \A i \in 1..Len(s) : s[i] = " "

\* the step is the call of an operation; TheCall is its log entry
NewCall == Len(calls') = Len(calls) + 1
TheCall == calls'[Len(calls')]

\* C5 (as stated): an add whose name or content is empty after trimming is
\* turned away as invalid and leaves the snippets map, the persisted blob and
\* injectedElements unchanged, whichever entry point is used.
C5_AddRejectsBlank ==
  [][ (/\ NewCall
       /\ TheCall.op \in {"addSnippet", "handleAdd"}
       /\ (Blank(TheCall.arg.name) \/ Blank(TheCall.arg.content)))
      => (/\ TheCall.status = "invalid"
          /\ UNCHANGED <<snippets, blob, injectedElements, dom, writeQueue>>) ]_vars

\* C5 (amended): handleAdd, given a name or content that is empty after
\* trimming, stops at its gate: addSnippet is not called, no write is issued,
\* and the snippets map, the blob and injectedElements are unchanged.
C5_HandleAddRejectsBlank ==
  [][ (/\ NewCall
       /\ TheCall.op = "handleAdd"
       /\ (Blank(TheCall.arg.name) \/ Blank(TheCall.arg.content)))
      => (/\ TheCall.status = "invalid"
          /\ TheCall.write = "none"
          /\ UNCHANGED <<snippets, blob, injectedElements, dom, writeQueue>>) ]_vars

\* C5 witness: handleAdd has just turned away a name made of one space.
C5_Witness ==
  /\ Latest > 0
  /\ calls[Latest].op = "handleAdd" /\ calls[Latest].status = "invalid"
  /\ calls[Latest].arg.name = <<" ">>

\* C6: updateSnippet and toggleSnippet called with an id that is not in the
\* snippets map throw not-found, issue no persistence write and leave the
\* snippets map and injectedElements unchanged.
C6_UnknownIdThrows ==
  [][ (/\ NewCall
       /\ TheCall.op \in {"updateSnippet", "toggleSnippet"}
       /\ ~MapHas(snippets, TheCall.id))
      => (/\ TheCall.status = "notFound"
          /\ TheCall.write = "none"
          /\ UNCHANGED <<snippets, injectedElements, dom, writeQueue, blob>>) ]_vars

\* C6 witness: an updateSnippet call has just thrown not-found.
C6_Witness ==
  /\ Latest > 0
  /\ calls[Latest].op = "updateSnippet" /\ calls[Latest].status = "notFound"

\* the attached elements made for snippet id
ElementsOf(d, id) == { el \in BagToSet(d) : el.sid = id }

\* C7: when an updateSnippet call resolves, the record it returns carries the
\* updates; if that record is enabled the element tracked for the id is made
\* from the record's content and is the only element attached for the id; if
\* it is disabled no element is tracked or attached for the id.
C7_UpdateReinjects ==
  [][ \A i \in 1..Len(calls) :
        (/\ calls[i].op \in {"updateSnippet", "toggleSnippet"}
         /\ calls[i].status = "pending"
         /\ calls'[i].status = "resolved")
        => LET id == calls[i].id
               u  == calls'[i].ret
           IN  /\ \A f \in DOMAIN calls[i].arg : u[f] = calls[i].arg[f]
               /\ IF Truthy(u.enabled)
                    THEN /\ id \in DOMAIN injectedElements'
                         /\ injectedElements'[id].from = u.content
                         /\ ElementsOf(dom', id) = {injectedElements'[id]}
                         /\ CopiesIn(injectedElements'[id], dom') = 1
                    ELSE /\ id \notin DOMAIN injectedElements'
                         /\ ElementsOf(dom', id) = {} ]_vars

MutatingOps == {"addSnippet", "handleAdd", "updateSnippet", "toggleSnippet", "deleteSnippet"}

\* the snippets map m shows the change call entry e made
Reflects(m, e, local) ==
  IF e.op = "deleteSnippet" THEN ~MapHas(m, e.id) ELSE MapGet(m, e.id) = local

\* C8: an add, update or delete makes its change to the snippets map before
\* its write is in flight; if the write fails the operation's promise
\* rejects and the map is left as it is (not rolled back), so that with no
\* later call it still shows the attempted change.
C8_WriteFailureSurfaces ==
  /\ [][ (NewCall /\ TheCall.op \in MutatingOps /\ TheCall.write = "inflight")
         => Reflects(snippets', TheCall, writeQueue'[Len(writeQueue')].local) ]_vars
  /\ [][ \A i \in 1..Len(calls) :
           (/\ calls[i].op \in MutatingOps
            /\ calls[i].write = "inflight"
            /\ calls'[i].write = "failed")
           => (/\ calls'[i].status = "rejected"
               /\ snippets' = snippets
               /\ i = Len(calls) => Reflects(snippets', calls[i], Head(writeQueue).local)) ]_vars

\* C8 witness: the write of an update of R1's content has failed, the call
\* is rejected, the map holds the new content and the blob the old one.
C8_Witness ==
  /\ Latest > 0
  /\ calls[Latest].op = "updateSnippet" /\ calls[Latest].status = "rejected"
  /\ calls[Latest].id = R1.id /\ calls[Latest].arg = [content |-> <<"b">>]
  /\ MapHas(snippets, R1.id) /\ GetSnippet(R1.id).content = <<"b">>
  /\ blob = Stringify(JArray(<<R1>>))

Range(s) == { s[i] : i \in 1..Len(s) }

\* the records the persisted blob holds
BlobRecords ==
  IF blob # Absent /\ ParseOk(blob) /\ IsArray(Parse(blob))
    THEN Range(Parse(blob).items) ELSE {}

C10_AllSorted ==
  LET all == GetAllSnippets(snippets)
  IN  /\ Len(all) = Len(snippets)
      /\ \A r \in Range(snippets) : Cardinality({ i \in 1..Len(all) : all[i] = r }) = 1
      /\ \A i, j \in 1..Len(all) :
           i < j => \/ all[i].createdAt < all[j].createdAt
                    \/ /\ all[i].createdAt = all[j].createdAt
                       /\ all[i].updatedAt <= all[j].updatedAt

\* C10 witness: after an import that kept an older createdAt, the map holds a
\* record inserted after one that was created later.
C10_Witness ==
  /\ \E i \in 1..Len(calls) : calls[i].op = "importSnippets" /\ calls[i].write = "ok"
  /\ \E i, j \in 1..Len(snippets) : i < j /\ snippets[i].createdAt > snippets[j].createdAt

\* the call entry e is an import of a file that holds a JSON array
ArrayImport(e) ==
  e.op = "importSnippets" /\ e.arg # Undefined /\ ParseOk(e.arg) /\ IsArray(Parse(e.arg))

\* the records getAllSnippets returns from m2 and did not return from m1
NewRecords(m1, m2) == Range(GetAllSnippets(m2)) \ Range(GetAllSnippets(m1))

\* C11: an import of an array turns away items one by one and goes on with the
\* batch: the summary it resolves with has success + failed = the number of
\* items, and success = the number of new records the import left in
\* getAllSnippets(), whether it resolves at once or after its write.
C11_ImportSummary ==
  /\ [][ (NewCall /\ ArrayImport(TheCall))
         => LET sum == IF TheCall.status = "pending"
                         THEN writeQueue'[Len(writeQueue')].local.sum
                         ELSE TheCall.ret
            IN  /\ sum.success + sum.failed = Len(Parse(TheCall.arg).items)
                /\ sum.success = Cardinality(NewRecords(snippets, snippets')) ]_vars
  /\ [][ \A i \in 1..Len(calls) :
           (ArrayImport(calls[i]) /\ calls[i].status = "pending" /\ calls'[i].status # "pending")
           => (/\ calls'[i].status = "resolved"
               /\ calls'[i].ret = Head(writeQueue).local.sum) ]_vars

\* C12: an import of a file that is no JSON, or whose JSON is no array,
\* resolves with success = 0 and exactly one error entry, issues no write and
\* leaves the snippets map, the persisted blob and injectedElements unchanged.
C12_BadFileRejected ==
  [][ (/\ NewCall
       /\ TheCall.op = "importSnippets" /\ TheCall.arg # Undefined
       /\ ~ArrayImport(TheCall))
      => (/\ TheCall.status = "resolved"
          /\ TheCall.ret.success = 0
          /\ Len(TheCall.ret.errors) = 1
          /\ UNCHANGED <<snippets, blob, injectedElements, dom, writeQueue>>) ]_vars

\* the ids the items of an imported array carry
CarriedIds(e) ==
  { Parse(e.arg).items[k].id :
      k \in { j \in DOMAIN Parse(e.arg).items : "id" \in DOMAIN Parse(e.arg).items[j] } }

\* C13: every record an import creates has an id that is neither the id its
\* item carried nor an id already in the store, so the records present before
\* the import are all present and unchanged after it.
C13_ImportKeepsRecords ==
  [][ (NewCall /\ ArrayImport(TheCall))
      => (/\ Len(snippets') >= Len(snippets)
          /\ \A i \in 1..Len(snippets) : snippets'[i] = snippets[i]
          /\ \A i \in (Len(snippets) + 1)..Len(snippets') :
               snippets'[i].id \notin CarriedIds(TheCall) \cup MapIds(snippets)) ]_vars

\* the snippets map of a fresh store after importing the array items into it
\* with the draws rnds, at a clock value later than any the run has read
ImportedFresh(items, rnds) == ImportLoop(items, <<>>, <<>>, EmptyBag, MaxTime + 1, rnds).m

\* C14: importing an exported file into a fresh store gives, for every
\* original record in getAllSnippets order, one record with the same name,
\* content, type and enabled and another id, and the createdAt of the
\* imported records increases strictly in that order.
C14_ExportImportRoundTrip ==
  \A i \in 1..Len(calls) :
    calls[i].op = "exportSnippets" =>
      LET items == Parse(calls[i].ret).items
      IN  \A rnds \in RandRuns(Len(items), {}) :
            LET m == ImportedFresh(items, rnds)
            IN  /\ Len(m) = Len(items)
                /\ \A k \in 1..Len(items) :
                     /\ m[k].name = items[k].name /\ m[k].content = items[k].content
                     /\ m[k].type = items[k].type /\ m[k].enabled = items[k].enabled
                     /\ m[k].id # items[k].id
                /\ \A j, k \in 1..Len(m) : j < k => m[j].createdAt < m[k].createdAt

\* C15: every record of the snippets map has updatedAt >= createdAt, in every
\* reachable state.
C15_UpdatedNotBeforeCreated ==
  \A i \in 1..Len(snippets) : snippets[i].updatedAt >= snippets[i].createdAt

\* C16: after unload no injected element is attached or tracked and the
\* command and the headbar button are unregistered, from then on, also when
\* an operation was suspended on its write while unload ran.
C16_TeardownClean ==
  phase = "unloaded" =>
    (injectedElements = <<>> /\ dom = EmptyBag /\ registered = {})

\* C17: no injection change is seen for a mutation whose write has not been
\* issued: a call that changes injectedElements or the attached elements has
\* its write in flight when the call step ends (an add or update changes them
\* only later, when that write has resolved).
C17_WriteBeforeInjection ==
  [][ (NewCall /\ <<injectedElements, dom>>' # <<injectedElements, dom>>)
      => TheCall.write = "inflight" ]_vars

\* the ids of the enabled records of the sequence s, in its order
EnabledIds(s) ==
  LET on == SelectSeq(s, LAMBDA r : Truthy(r.enabled))
  IN  [i \in 1..Len(on) |-> on[i].id]

\* the step is the run of loadAllEnabled
LoadStep == phase = "inited" /\ phase' = "loaded"

\* C18 (as stated): loadAllEnabled calls injectSnippet once for every enabled
\* record and for no disabled one, in the order getAllSnippets returns.
C18_LoadInjectsInSortOrder ==
  [][ LoadStep => loadCalls' = EnabledIds(GetAllSnippets(snippets)) ]_vars

\* C18 (amended): loadAllEnabled calls injectSnippet once for every enabled
\* record and for no disabled one, in the insertion order of the snippets
\* map.
C18_LoadInjectsInMapOrder ==
  [][ LoadStep => loadCalls' = EnabledIds(snippets) ]_vars

\* C18 witness: loadAllEnabled has injected R2 and then R1, the order they
\* have in the stored array, while getAllSnippets returns R1 first.
C18_Witness ==
  /\ phase = "loaded" /\ calls = <<>>
  /\ loadCalls = <<R2.id, R1.id>>
  /\ Tracked(R1.id) /\ Tracked(R2.id)
  /\ GetAllSnippets(snippets)[1].id = R1.id

\* C19: init injects nothing: until loadAllEnabled has run, injectedElements
\* is empty, no manager element is attached and injectSnippet was not called,
\* whatever records init loaded.
C19_InitInjectsNothing ==
  phase \in {"constructed", "inited"} =>
    (injectedElements = <<>> /\ dom = EmptyBag /\ loadCalls = <<>>)

\* C19 witness: init has loaded enabled records and loadAllEnabled has not
\* run yet.
C19_Witness ==
  /\ phase = "inited"
  /\ MapHas(snippets, R1.id) /\ Truthy(MapGet(snippets, R1.id).enabled)

\* the persisted text is a JSON array whose elements are all records
BlobIsRecordArray ==
  /\ blob # Absent /\ ParseOk(blob) /\ IsArray(Parse(blob))
  /\ \A i \in DOMAIN Parse(blob).items : Parse(blob).items[i] # JNull

\* C20: init fails soft: right after it the store holds the records of the
\* persisted array if the persisted text is an array of records, and is empty
\* if the text is absent or is anything else (no JSON, no array, an array with
\* a non-record element).
C20_InitFailsSoft ==
  phase = "inited" =>
    IF BlobIsRecordArray THEN Range(snippets) = Range(Parse(blob).items)
                         ELSE snippets = <<>>

\* the call entry e is an add that got past validation
AddCall(e) == e.op \in {"addSnippet", "handleAdd"} /\ e.status = "pending"

\* C21: addSnippet on valid input adds exactly one record under an id no
\* record had (the records already stored are kept, the store grows by one),
\* stamps it createdAt = updatedAt = now and issues a write; when the write
\* has gone through it returns that record, and has injected it if and only
\* if it is enabled.
C21_AddCreatesOne ==
  /\ [][ (NewCall /\ AddCall(TheCall) /\ ~Blank(TheCall.arg.name)
                  /\ ~Blank(TheCall.arg.content))
         => (/\ ~MapHas(snippets, TheCall.id)
             /\ Len(snippets') = Len(snippets) + 1
             /\ \A i \in 1..Len(snippets) : snippets'[i] = snippets[i]
             /\ snippets'[Len(snippets')].id = TheCall.id
             /\ snippets'[Len(snippets')].createdAt = now
             /\ snippets'[Len(snippets')].updatedAt = now
             /\ TheCall.write = "inflight"
             /\ Len(writeQueue') = Len(writeQueue) + 1) ]_vars
  /\ [][ \A i \in 1..Len(calls) :
           (AddCall(calls[i]) /\ calls'[i].write = "ok")
           => (/\ calls'[i].status = "resolved"
               /\ calls'[i].ret = Head(writeQueue).local
               /\ IF Truthy(calls'[i].ret.enabled)
                    THEN /\ calls[i].id \in DOMAIN injectedElements'
                         /\ injectedElements'[calls[i].id] = NewElement(calls'[i].ret)
                    ELSE injectedElements' = injectedElements) ]_vars

\* the call entry e is an update or toggle
UpdateCall(e) == e.op \in {"updateSnippet", "toggleSnippet"}

\* C22: updateSnippet and toggleSnippet change only the record with the id
\* they are given: it keeps its id and createdAt and gets updatedAt = now,
\* every other record keeps its value and place, and when the call settles
\* every entry of injectedElements under another id is as it was.
C22_UpdateFrame ==
  /\ [][ (NewCall /\ UpdateCall(TheCall) /\ TheCall.status = "pending")
         => (/\ Len(snippets') = Len(snippets)
             /\ \A i \in 1..Len(snippets) :
                  IF snippets[i].id = TheCall.id
                    THEN /\ snippets'[i].id = snippets[i].id
                         /\ snippets'[i].createdAt = snippets[i].createdAt
                         /\ snippets'[i].updatedAt = now
                    ELSE snippets'[i] = snippets[i]
             /\ injectedElements' = injectedElements
             /\ dom' = dom) ]_vars
  /\ [][ \A i \in 1..Len(calls) :
           (UpdateCall(calls[i]) /\ calls[i].status = "pending"
                                 /\ calls'[i].status # "pending")
           => (/\ snippets' = snippets
               /\ DOMAIN injectedElements' \ {calls[i].id}
                    = DOMAIN injectedElements \ {calls[i].id}
               /\ \A k \in DOMAIN injectedElements \ {calls[i].id} :
                    injectedElements'[k] = injectedElements[k]) ]_vars

\* C22 witness: an update of R1 has resolved; R1 has the updatedAt of the
\* call, later than the stored one, and its old createdAt, and R2 and its
\* element are as loadAllEnabled left them.
C22_Witness ==
  /\ Len(calls) = 1
  /\ calls[1].op = "updateSnippet" /\ calls[1].id = R1.id /\ calls[1].status = "resolved"
  /\ GetSnippet(R1.id).updatedAt = now /\ now > R1.updatedAt
  /\ GetSnippet(R1.id).createdAt = R1.createdAt
  /\ GetSnippet(R2.id) = R2
  /\ Tracked(R2.id) /\ injectedElements[R2.id] = NewElement(R2)

\* C29: once no operation is suspended on a write, every tracked element was
\* made from the content the snippets map now holds for its id, whatever
\* calls overlapped and however their writes resolved.
C29_NoStaleInjection ==
  (phase = "loaded" /\ Idle) =>
    \A id \in DOMAIN injectedElements :
      /\ MapHas(snippets, id)
      /\ injectedElements[id].from = MapGet(snippets, id).content

\* the items of an imported array that pass the checks of the loop
Accepted(items) ==
  SelectSeq(items, LAMBDA it :
    /\ it # JNull
    /\ ~(Falsy(it, "name") \/ Falsy(it, "content") \/ NoType(it))
    /\ it.type \in {"css", "js"})

\* the elements the step attached
Attached == BagToSet(dom') \ BagToSet(dom)

\* C23: an imported item without an enabled field is stored with enabled =
\* false, and an import injects only records whose item carries enabled =
\* true: every element an import attaches was made from such an item.
C23_ImportNotEager ==
  [][ (NewCall /\ ArrayImport(TheCall))
      => LET items == Accepted(Parse(TheCall.arg).items)
         IN  /\ \A r \in Range(snippets') \ Range(snippets) :
                  \A k \in 1..Len(items) :
                    (items[k].content = r.content /\ "enabled" \notin DOMAIN items[k])
                    => r.enabled = JFalse
             /\ \A el \in Attached :
                  \E k \in 1..Len(items) :
                    /\ items[k].content = el.from
                    /\ "enabled" \in DOMAIN items[k]
                    /\ items[k].enabled = JTrue ]_vars

\* a is b with some of its entries left out
RECURSIVE IsSubseq(_, _)
IsSubseq(a, b) ==
  IF a = <<>> THEN TRUE
  ELSE IF b = <<>> THEN FALSE
  ELSE IF Head(a) = Head(b) THEN IsSubseq(Tail(a), Tail(b))
  ELSE IsSubseq(a, Tail(b))

\* what an imported record keeps of its item
Kept(r) == <<r.name, r.content, r.type, r.enabled>>
KeptOf(item) == <<item.name, item.content, item.type, OrElse(item, "enabled", JFalse)>>
MapSeq(Op(_), s) == [i \in 1..Len(s) |-> Op(s[i])]

\* getAllSnippets() after the step, restricted to the records the step made
ImportedInOrder ==
  SelectSeq(GetAllSnippets(snippets'), LAMBDA r : r \notin Range(snippets))

\* the new records come back in the order of the file, each created at least
\* one step after the one before it
InFileOrder(items) ==
  LET new == ImportedInOrder
  IN  /\ IsSubseq(MapSeq(Kept, new), MapSeq(KeptOf, items))
      /\ \A i \in 1..(Len(new) - 1) :
           new[i + 1].createdAt >= new[i].createdAt + ImportStep

\* no item of the batch carries a createdAt of its own
Stampless(items) == \A k \in 1..Len(items) : "createdAt" \notin DOMAIN items[k]

\* C24 as stated: after every import of an array, getAllSnippets restricted to
\* the new records returns them in the order of the file, each created a step
\* after the one before it, also when some items carry their own createdAt.
C24_FileOrderAlways ==
  [][ (NewCall /\ ArrayImport(TheCall))
      => InFileOrder(Accepted(Parse(TheCall.arg).items)) ]_vars

\* C24 (amended): when no accepted item of the file carries a createdAt, each
\* accepted item is created at least the step of 1000 ms after the accepted
\* item before it, and getAllSnippets restricted to the new records returns
\* them in the order of the file.
C24_StamplessFileOrder ==
  [][ (NewCall /\ ArrayImport(TheCall)
         /\ Stampless(Accepted(Parse(TheCall.arg).items)))
      => InFileOrder(Accepted(Parse(TheCall.arg).items)) ]_vars

\* an import of a file of stampless items has stored two records a step apart
C24_Witness ==
  /\ \E i \in 1..Len(calls) :
       /\ ArrayImport(calls[i])
       /\ Stampless(Accepted(Parse(calls[i].arg).items))
       /\ Len(Accepted(Parse(calls[i].arg).items)) >= 2
  /\ \E r1, r2 \in Range(snippets) :
       /\ r1.content # r2.content
       /\ r2.createdAt = r1.createdAt + ImportStep

\* the executeCode() calls the step made inside injectSnippet
SyncRuns == SelectSeq(events', LAMBDA e : e.ev = "run" /\ e.how = "sync")

\* the closures the step registered
NewDeferred ==
  IF Len(deferred') > Len(deferred)
    THEN SubSeq(deferred', Len(deferred) + 1, Len(deferred'))
    ELSE <<>>

\* C25 as stated: code runs inside the inject call if and only if it names no
\* DOM keyword; code that does is registered for DOMContentLoaded while the
\* document is loading and for the next frame otherwise.
C25_MarkerNeverSync ==
  [][ /\ \A i \in 1..Len(SyncRuns) : ~CheckIfNeedsDOMReady(SyncRuns[i].code)
      /\ \A i \in 1..Len(NewDeferred) :
           /\ CheckIfNeedsDOMReady(NewDeferred[i].snippet.content)
           /\ NewDeferred[i].on = IF readyState = "loading" THEN "DOMContentLoaded"
                                                            ELSE "frame" ]_vars

\* C25 (amended): code runs inside the inject call if and only if it names no
\* DOM keyword or the document is complete; code that names one is registered
\* for DOMContentLoaded while the document is loading and for the next frame
\* while it is interactive.
C25_SyncUnlessDocumentNotReady ==
  [][ /\ \A i \in 1..Len(SyncRuns) :
           ~CheckIfNeedsDOMReady(SyncRuns[i].code) \/ readyState = "complete"
      /\ \A i \in 1..Len(NewDeferred) :
           /\ CheckIfNeedsDOMReady(NewDeferred[i].snippet.content)
           /\ readyState \in {"loading", "interactive"}
           /\ NewDeferred[i].on = IF readyState = "loading" THEN "DOMContentLoaded"
                                                            ELSE "frame" ]_vars

\* code that names the DOM has just run inside an inject call, in a complete
\* document
C25_Witness ==
  /\ readyState = "complete"
  /\ \E i \in 1..Len(events) :
       /\ events[i].ev = "run" /\ events[i].how = "sync"
       /\ CheckIfNeedsDOMReady(events[i].code)

\* the code fails the pre-check, or executeCode() does not come to its end
Fails(code) == ~ValidateJavaScript(code) \/ ExecuteCode(code) # "ok"

\* the runs of failing code and the notifications of a step
FailedRuns == SelectSeq(events', LAMBDA e : e.ev = "run" /\ Fails(e.code))
Notified   == SelectSeq(events', LAMBDA e : e.ev = "notify")

\* C26: code that fails its pre-check or throws is reported by one error
\* notification per failing run, its tracker element is attached and tracked
\* when the inject call returns, and loadAllEnabled leaves every enabled
\* record tracked.
C26_FailureContained ==
  [][ /\ Len(Notified) = Len(FailedRuns)
      /\ \A i \in 1..Len(FailedRuns) :
           FailedRuns[i].how = "sync"
           => /\ FailedRuns[i].sid \in DOMAIN injectedElements'
              /\ injectedElements'[FailedRuns[i].sid].from = FailedRuns[i].code
              /\ injectedElements'[FailedRuns[i].sid] \in BagToSet(dom')
      /\ LoadStep
           => \A r \in Range(snippets) :
                Truthy(r.enabled) => r.id \in DOMAIN injectedElements' ]_vars

Triggers == {"DOMContentLoaded", "frame"}

\* the codes of the stored records that name the DOM
MarkerCodes == { J1.content, J4.content, J6.content }

\* s is the beginning of t
IsPrefix(s, t) == Len(s) <= Len(t) /\ SubSeq(t, 1, Len(s)) = s

\* the executeCode() calls a step made from a listener or a frame callback
LateRuns == SelectSeq(events', LAMBDA e : e.ev = "run" /\ e.how # "sync")

\* C27: a closure registered by injectSnippet leaves the waiting list only by
\* being called by its trigger, which runs the content it closed over, once;
\* no operation of the manager (update, toggle, delete, unload) takes it out;
\* and every registered closure is called in the end, whatever has become of
\* its record.
C27_DeferredFiresOnce ==
  /\ [][ \/ /\ IsPrefix(deferred, deferred')
            /\ LateRuns = <<>>
         \/ \E on \in Triggers :
              /\ deferred' = SelectSeq(deferred, LAMBDA e : e.on # on)
              /\ LateRuns = [i \in 1..Len(Waiting(on)) |->
                               RunEvent(Waiting(on)[i].snippet, on)] ]_vars
  /\ \A on \in Triggers, code \in MarkerCodes :
       (\E i \in 1..Len(deferred) :
          deferred[i].on = on /\ deferred[i].snippet.content = code)
       ~> (\E i \in 1..Len(events) :
             /\ events[i].ev = "run" /\ events[i].how = on
             /\ events[i].code = code)

\* a closure has just run the code of a record that was deleted, switched off
\* or edited after the closure was registered
C27_Witness ==
  \E i \in 1..Len(events) :
    /\ events[i].ev = "run" /\ events[i].how \in Triggers
    /\ \/ ~MapHas(snippets, events[i].sid)
       \/ ~Truthy(MapGet(snippets, events[i].sid).enabled)
       \/ MapGet(snippets, events[i].sid).content # events[i].code
    /\ \E k \in 1..Len(calls) :
         calls[k].id = events[i].sid
         /\ calls[k].op \in {"deleteSnippet", "toggleSnippet", "updateSnippet"}

\* C28: deleteSnippet with an id that is not in the store does not throw,
\* leaves the snippets map, injectedElements and the document as they are, and
\* issues one write of the whole collection.
C28_DeleteAbsentIsNoOp ==
  [][ (NewCall /\ TheCall.op = "deleteSnippet" /\ ~MapHas(snippets, TheCall.id))
      => /\ TheCall.status = "pending" /\ TheCall.write = "inflight"
         /\ snippets' = snippets
         /\ injectedElements' = injectedElements
         /\ dom' = dom
         /\ Len(writeQueue') = Len(writeQueue) + 1
         /\ writeQueue'[Len(writeQueue')].data = SaveData(snippets) ]_vars

\* C30: openManager is a toggle whose flag matches the document:
\* managerPopupVisible is true only while a manager container is attached, and
\* at most one manager container and at most one edit container are attached.
C30_FlagMatchesDocument ==
  /\ managerPopupVisible => AttachedContainers # {}
  /\ Cardinality(AttachedContainers) <= 1
  /\ editContainers <= 1
====
